---- MODULE Spec2Model ----
(***************************************************************************)
(* Master-call catalog builder (scripts/generate_call_index.py) and the    *)
(* two HTTP delivery servers (serve_production.py, scripts/serve_dev.py).  *)
(*                                                                         *)
(* File names and paths are sequences of one-character strings, so that    *)
(* stem, endswith, concatenation and splitting on "/" are computed the way *)
(* the code computes them.  MIME types and header names are plain strings. *)
(*                                                                         *)
(* BuildSpec is the catalog builder run against a changing metadata        *)
(* directory; Spec is a delivery server answering requests.                *)
(***************************************************************************)
EXTENDS Integers, Sequences, FiniteSets, TLC

VARIABLES
    procDir,     \* processed_dir exists
    metaDir,     \* processed_dir/metadata exists
    files,       \* metadata directory: file name -> file content
    indexFile,   \* content of processed_dir/index.json, or NoFile
    build,       \* the generate_index call just made, if the tree is as it left it
    changes,     \* number of changes made to the directory tree so far
    server,      \* which server program is running
    platform,    \* the platform MIME table: extension -> type
    tree,        \* the served tree and the data directories
    request,     \* the request just handled, if the tree is as it was then
    response,    \* what the handler did with it
    args,        \* the command line of serve_production.py, as argparse read it
    main,        \* where main() of the server is, and the listening socket
    writer,      \* where a generate_index call in progress is
    seen,        \* what a reader of index.json read last
    removed      \* metadata files deleted and not added again

builderVars == <<procDir, metaDir, files, indexFile, build, changes>>
serverVars == <<server, platform, tree, request, response>>
startVars == <<args, main>>
writeVars == <<writer, seen>>
vars == <<procDir, metaDir, files, indexFile, build, changes,
          server, platform, tree, request, response,
          args, main, writer, seen, removed>>

(***************************************************************************)
(* Bounds                                                                  *)
(***************************************************************************)
MaxChanges == 2

(***************************************************************************)
(* Strings as character sequences                                          *)
(***************************************************************************)
EndsWith(s, suffix) ==
    /\ Len(s) >= Len(suffix)
    /\ SubSeq(s, Len(s) - Len(suffix) + 1, Len(s)) = suffix

StartsWith(s, prefix) ==
    /\ Len(s) >= Len(prefix)
    /\ SubSeq(s, 1, Len(prefix)) = prefix

\* str.rfind(c), 1-based; 0 when c does not occur
RFind(s, c) ==
    LET hits == {i \in 1..Len(s) : s[i] = c}
    IN  IF hits = {} THEN 0 ELSE CHOOSE i \in hits : \A j \in hits : j <= i

\* str.find(c), 1-based; 0 when c does not occur
Find(s, c) ==
    LET hits == {i \in 1..Len(s) : s[i] = c}
    IN  IF hits = {} THEN 0 ELSE CHOOSE i \in hits : \A j \in hits : i <= j

RECURSIVE Split(_, _)
\* str.split(sep) for a one-character separator
Split(s, sep) ==
    LET i == Find(s, sep)
    IN  IF i = 0 THEN <<s>>
        ELSE <<SubSeq(s, 1, i - 1)>> \o Split(SubSeq(s, i + 1, Len(s)), sep)

DotJson == <<".", "j", "s", "o", "n">>
DotWav == <<".", "w", "a", "v">>
DotMfc == <<".", "m", "f", "c">>
MasterCallsPrefix ==
    <<".", ".", "/", "m", "a", "s", "t", "e", "r", "_", "c", "a", "l", "l", "s", "/">>
MfcPrefix == <<"m", "f", "c", "/">>
WaveformsPrefix == <<"w", "a", "v", "e", "f", "o", "r", "m", "s", "/">>
MetadataPrefix == <<"m", "e", "t", "a", "d", "a", "t", "a", "/">>

(***************************************************************************)
(* The metadata directory                                                  *)
(***************************************************************************)
NoFile == [kind |-> "absent"]
None == "<None>"

\* File names a metadata directory may hold.
Names ==
    { <<"a">> \o DotJson,
      <<"b">> \o DotJson,
      DotJson,
      DotJson \o DotJson,
      <<".", ".">> \o DotJson,
      <<"a", ".", "t", "x", "t">> }

\* File contents: JSON objects (a function from the keys present to their
\* values), and text that is not JSON.
EmptyRecord == [kind |-> "object", rec |-> <<>>]
FullRecord ==
    [kind |-> "object",
     rec |-> [species |-> "elk", callType |-> "bugle", season |-> "fall",
              difficulty |-> 0, duration |-> 2]]
NullSpeciesRecord == [kind |-> "object", rec |-> [species |-> None]]
Malformed == [kind |-> "invalid"]

Contents == {EmptyRecord, FullRecord, NullSpeciesRecord, Malformed}

\* The contents tried for each name.
ContentsOf(name) ==
    IF name = <<"a">> \o DotJson THEN Contents
    ELSE IF name = <<"b">> \o DotJson THEN {EmptyRecord, FullRecord}
    ELSE IF name = DotJson \o DotJson THEN {FullRecord}
    ELSE {EmptyRecord}

\* metadata_dir.glob("*.json"): the names the pattern matches.  A missing
\* directory matches nothing.
GlobJson ==
    IF metaDir THEN {n \in DOMAIN files : EndsWith(n, DotJson)} ELSE {}

\* PurePath.stem: the name without its last suffix; a leading or trailing dot
\* starts no suffix.
Stem(name) ==
    LET i == RFind(name, ".")
    IN  IF 1 < i /\ i < Len(name) THEN SubSeq(name, 1, i - 1) ELSE name

\* The orders in which the directory scan may yield a set of names.
Orders(S) ==
    {o \in [1..Cardinality(S) -> S] : \A i, j \in 1..Cardinality(S) : o[i] = o[j] => i = j}

(***************************************************************************)
(* generate_index                                                          *)
(***************************************************************************)
\* json.load: the parsed object, or an exception
JsonLoad(content) ==
    IF content.kind = "object"
    THEN [ok |-> TRUE, value |-> content.rec]
    ELSE [ok |-> FALSE, value |-> <<>>]

\* A lookup that also replaces a present but falsy value (0, "") by the default.
GetOrDefault(metadata, key, default) ==
    IF key \notin DOMAIN metadata THEN default
    ELSE IF key \in {"difficulty", "duration"}
    THEN (IF metadata[key] = 0 THEN default ELSE metadata[key])
    ELSE (IF metadata[key] = "" THEN default ELSE metadata[key])

\* dict.get(key, default)
Get(metadata, key, default) ==
    IF key \in DOMAIN metadata THEN metadata[key] ELSE default

\* Paths built from the bare id, without the extension after it.
FilesForBareId(base_name) ==
    [audio |-> MasterCallsPrefix \o base_name \o DotWav,
     mfc |-> MfcPrefix \o base_name,
     waveform |-> WaveformsPrefix \o base_name,
     metadata |-> MetadataPrefix \o base_name]

FilesFor(base_name) ==
    [audio |-> MasterCallsPrefix \o base_name \o DotWav,
     mfc |-> MfcPrefix \o base_name \o DotMfc,
     waveform |-> WaveformsPrefix \o base_name \o DotJson,
     metadata |-> MetadataPrefix \o base_name \o DotJson]

CallEntry(base_name, metadata) ==
    [id |-> base_name,
     species |-> Get(metadata, "species", "unknown"),
     callType |-> Get(metadata, "callType", "unknown"),
     season |-> Get(metadata, "season", "all"),
     difficulty |-> Get(metadata, "difficulty", 1),
     duration |-> Get(metadata, "duration", 0),
     files |-> FilesFor(base_name)]

\* index["species"]: a dict in insertion order, as a sequence of buckets
HasKey(buckets, k) == \E i \in 1..Len(buckets) : buckets[i].key = k

\* A bucket that is replaced by the new id instead of extended with it.
GroupBySpeciesOverwriting(buckets, species, base_name) ==
    LET withKey == IF HasKey(buckets, species)
                   THEN buckets
                   ELSE Append(buckets, [key |-> species, ids |-> <<>>])
    IN  [i \in 1..Len(withKey) |->
            IF withKey[i].key = species
            THEN [key |-> species, ids |-> <<base_name>>]
            ELSE withKey[i]]

GroupBySpecies(buckets, species, base_name) ==
    LET withKey == IF HasKey(buckets, species)
                   THEN buckets
                   ELSE Append(buckets, [key |-> species, ids |-> <<>>])
    IN  [i \in 1..Len(withKey) |->
            IF withKey[i].key = species
            THEN [key |-> species, ids |-> Append(withKey[i].ids, base_name)]
            ELSE withKey[i]]

EmptyIndex == [version |-> "1.0", species |-> <<>>, calls |-> <<>>]

RECURSIVE ScanLoop(_, _, _)
\* The for loop over the scan order, from position i with the index so far.
ScanLoop(order, i, index) ==
    IF i > Len(order) THEN [ok |-> TRUE, index |-> index]
    ELSE LET loaded == JsonLoad(files[order[i]])
             base_name == Stem(order[i])
             call_entry == CallEntry(base_name, loaded.value)
             species == Get(loaded.value, "species", "unknown")
         IN  IF ~loaded.ok THEN [ok |-> FALSE, index |-> index]
             ELSE ScanLoop(order, i + 1,
                           [index EXCEPT
                              !.calls = Append(@, call_entry),
                              !.species = GroupBySpecies(@, species, base_name)])

\* json.dump: dict keys become strings (None becomes "null"); values are kept
JsonKey(k) == IF k = None THEN "null" ELSE k

JsonDump(index) ==
    [kind |-> "catalog",
     version |-> index.version,
     species |-> [i \in 1..Len(index.species) |->
                    [key |-> JsonKey(index.species[i].key),
                     ids |-> index.species[i].ids]],
     calls |-> index.calls]

\* ', '.join(index['species'].keys()) raises on a key that is no string
JoinKeysOk(index) == \A i \in 1..Len(index.species) : index.species[i].key # None

NoBuild == [status |-> "none", order |-> <<>>, before |-> NoFile, rerun |-> FALSE]

\* One call of generate_index(processed_dir), with the directory scan
\* yielding the matching names in the given order.
GenerateIndex(order) ==
    LET scan == ScanLoop(order, 1, EmptyIndex)
        written == scan.ok /\ procDir
        status == IF written /\ JoinKeysOk(scan.index) THEN "ok" ELSE "error"
    IN  /\ indexFile' = IF written THEN JsonDump(scan.index) ELSE indexFile
        /\ build' = [status |-> status,
                     order |-> order,
                     before |-> indexFile,
                     rerun |-> build.status = "ok" /\ status = "ok"]
        /\ UNCHANGED <<procDir, metaDir, files, changes>>

Build == \E order \in Orders(GlobJson) : GenerateIndex(order)

(***************************************************************************)
(* The write of index.json, step by step, and a reader of the file         *)
(***************************************************************************)
\* index.json just opened with mode 'w': it exists and is empty
EmptyFile == [kind |-> "empty"]

\* The top-level members of the document, in the order json.dump writes them
Members == <<"version", "species", "calls">>

\* index.json holding the first k members of the document and no closing
\* brace: what the file holds when the buffer was flushed in mid-dump
Truncated(doc, k) == [kind |-> "truncated", members |-> SubSeq(Members, 1, k)]

\* generate_index up to and including open(index_path, 'w'): the scan is
\* over, the index is in memory, and the file is truncated in place.
OpenIndex ==
    /\ writer.pc = "idle"
    /\ \E order \in Orders(GlobJson) :
          LET scan == ScanLoop(order, 1, EmptyIndex)
          IN  /\ scan.ok
              /\ procDir
              /\ writer' = [pc |-> "dumping", doc |-> JsonDump(scan.index)]
    /\ indexFile' = EmptyFile
    /\ UNCHANGED <<procDir, metaDir, files, build, changes, seen>>

\* json.dump(index, f, indent=2) in progress: the buffered file object
\* flushes the text written so far into index.json.
FlushIndex ==
    /\ writer.pc = "dumping"
    /\ \E k \in 1..(Len(Members) - 1) :
          /\ indexFile.kind = "truncated" => Len(indexFile.members) < k
          /\ indexFile' = Truncated(writer.doc, k)
    /\ UNCHANGED <<procDir, metaDir, files, build, changes, writer, seen>>

\* The end of the with block: the rest is flushed and the file closed.
CloseIndex ==
    /\ writer.pc = "dumping"
    /\ indexFile' = writer.doc
    /\ writer' = [pc |-> "idle"]
    /\ UNCHANGED <<procDir, metaDir, files, build, changes, seen>>

\* Another process reads index.json as it is now.
ReadIndex ==
    /\ seen' = [kind |-> indexFile.kind, during |-> writer.pc]
    /\ UNCHANGED <<procDir, metaDir, files, indexFile, build, changes, writer>>

(***************************************************************************)
(* Changes to the directory tree between builds                            *)
(***************************************************************************)
AddFile ==
    /\ changes < MaxChanges
    /\ metaDir
    /\ \E n \in Names \ DOMAIN files :
       \E c \in ContentsOf(n) :
          /\ files' = [m \in DOMAIN files \cup {n} |-> IF m = n THEN c ELSE files[m]]
    /\ changes' = changes + 1
    /\ build' = NoBuild
    /\ UNCHANGED <<procDir, metaDir, indexFile>>

RemoveFile ==
    /\ changes < MaxChanges
    /\ \E n \in DOMAIN files :
          files' = [m \in DOMAIN files \ {n} |-> files[m]]
    /\ changes' = changes + 1
    /\ build' = NoBuild
    /\ UNCHANGED <<procDir, metaDir, indexFile>>

RemoveMetadataDir ==
    /\ changes < MaxChanges
    /\ metaDir
    /\ metaDir' = FALSE
    /\ files' = <<>>
    /\ changes' = changes + 1
    /\ build' = NoBuild
    /\ UNCHANGED <<procDir, indexFile>>

MakeMetadataDir ==
    /\ changes < MaxChanges
    /\ procDir
    /\ ~metaDir
    /\ metaDir' = TRUE
    /\ changes' = changes + 1
    /\ build' = NoBuild
    /\ UNCHANGED <<procDir, files, indexFile>>

BuilderInit ==
    /\ procDir \in BOOLEAN
    /\ metaDir \in BOOLEAN
    /\ metaDir => procDir
    /\ files = <<>>
    /\ indexFile = NoFile
    /\ build = NoBuild
    /\ changes = 0

(***************************************************************************)
(* The delivery servers: requests and the served tree                      *)
(***************************************************************************)
Slash == <<"/">>
WebDir == <<"/", "w", "e", "b">>
DotWasm == <<".", "w", "a", "s", "m">>
DotJs == <<".", "j", "s">>
DotTs == <<".", "t", "s">>
DotMp3 == <<".", "m", "p", "3">>
DotOgg == <<".", "o", "g", "g">>
DotHtml == <<".", "h", "t", "m", "l">>
ApiPrefix == <<"/", "a", "p", "i", "/">>
ApiStatus == ApiPrefix \o <<"s", "t", "a", "t", "u", "s">>
ApiMasterCalls ==
    ApiPrefix \o <<"m", "a", "s", "t", "e", "r", "-", "c", "a", "l", "l", "s">>
ApiTestAudio == ApiPrefix \o <<"t", "e", "s", "t", "-", "a", "u", "d", "i", "o">>
IndexHtml == <<"i", "n", "d", "e", "x">> \o DotHtml

WasmFile == WebDir \o <<"/", "e">> \o DotWasm
JsFile == WebDir \o <<"/", "e">> \o DotJs
WebIndex == WebDir \o Slash \o IndexHtml

\* Regular files the served tree may hold; "/" and "/web" are directories.
ServedFiles == {WasmFile, JsFile, WebIndex}
ServedDirs == {<<>>, WebDir}

\* Request targets.
Targets ==
    { Slash,
      WebDir,
      WebDir \o Slash,
      WasmFile,
      JsFile,
      WebDir \o <<"/", "m">> \o DotOgg,
      ApiStatus,
      ApiStatus \o <<"?", "v">>,
      ApiMasterCalls,
      ApiTestAudio,
      ApiPrefix \o <<"n", "o", "p", "e">> }

Methods == {"GET", "HEAD", "OPTIONS", "POST"}

\* A data directory scanned for *.wav: every entry can be stat()ed (or there
\* is none, or no directory), or stat() fails on one (a dangling link).
WavStates == {"listable", "dangling"}

\* urlparse(path).path: the target up to its query
UrlPath(target) ==
    LET q == Find(target, "?")
    IN  IF q = 0 THEN target ELSE SubSeq(target, 1, q - 1)

\* translate_path, relative to the served directory: the query and a
\* trailing slash are dropped
TranslatePath(target) ==
    LET p == UrlPath(target)
    IN  IF Len(p) > 0 /\ p[Len(p)] = "/" THEN SubSeq(p, 1, Len(p) - 1) ELSE p

\* posixpath.splitext(path)[1]: from the last dot of the last component,
\* leading dots of the component apart
SplitExt(path) ==
    LET slash == RFind(path, "/")
        name == SubSeq(path, slash + 1, Len(path))
        dot == RFind(name, ".")
    IN  IF dot > 1 /\ \E i \in 1..(dot - 1) : name[i] # "."
        THEN SubSeq(name, dot, Len(name)) ELSE <<>>

(***************************************************************************)
(* Building a response                                                     *)
(***************************************************************************)
NoResponse ==
    [emitted |-> FALSE, status |-> 0, headers |-> <<>>, body |-> "",
     raised |-> "", entered |-> {}]

\* send_response(code): the status line and the Server and Date headers
SendResponse(code) ==
    [NoResponse EXCEPT !.status = code,
                       !.headers = << <<"Server", "SimpleHTTP">>, <<"Date", "now">> >>]

\* send_header(keyword, value)
SendHeader(r, keyword, value) == [r EXCEPT !.headers = Append(@, <<keyword, value>>)]

\* BaseHTTPRequestHandler.end_headers: the buffered head is written out
FlushHeaders(r) == [r EXCEPT !.emitted = TRUE]

\* Headers ended with the CORS and security headers but no isolation headers.
HuntmasterEndHeadersNoIsolation(r, path) ==
    FlushHeaders(SendHeader(SendHeader(r,
        "Access-Control-Allow-Origin", "*"),
        "X-Content-Type-Options", "nosniff"))

\* HuntmasterHandler.end_headers
HuntmasterEndHeaders(r, path) ==
    LET isolation ==
            SendHeader(SendHeader(r, "Cross-Origin-Embedder-Policy", "require-corp"),
                       "Cross-Origin-Opener-Policy", "same-origin")
        cors ==
            SendHeader(SendHeader(SendHeader(SendHeader(isolation,
                "Access-Control-Allow-Origin", "*"),
                "Access-Control-Allow-Methods", "GET, POST, PUT, DELETE, OPTIONS"),
                "Access-Control-Allow-Headers",
                "Content-Type, Authorization, X-Requested-With"),
                "Access-Control-Max-Age", "86400")
        security ==
            SendHeader(SendHeader(SendHeader(cors,
                "X-Content-Type-Options", "nosniff"),
                "X-Frame-Options", "SAMEORIGIN"),
                "X-XSS-Protection", "1; mode=block")
        cache ==
            IF EndsWith(path, DotWasm) \/ EndsWith(path, DotJs)
            THEN SendHeader(security, "Cache-Control", "no-cache, must-revalidate")
            ELSE IF EndsWith(path, DotWav) \/ EndsWith(path, DotMp3)
                    \/ EndsWith(path, DotOgg)
            THEN SendHeader(security, "Cache-Control", "public, max-age=3600")
            ELSE security
    IN  FlushHeaders(cache)

\* CORSRequestHandler.end_headers
CORSEndHeaders(r, path) ==
    LET isolation ==
            SendHeader(SendHeader(r, "Cross-Origin-Embedder-Policy", "require-corp"),
                       "Cross-Origin-Opener-Policy", "same-origin")
        cors ==
            SendHeader(SendHeader(SendHeader(isolation,
                "Access-Control-Allow-Origin", "*"),
                "Access-Control-Allow-Methods", "GET, POST, OPTIONS"),
                "Access-Control-Allow-Headers", "*")
    IN  FlushHeaders(SendHeader(cors, "Content-Type", "application/wasm"))

\* self.end_headers() of the running handler class
EndHeaders(srv, r, path) ==
    IF srv = "serve_production" THEN HuntmasterEndHeaders(r, path)
    ELSE CORSEndHeaders(r, path)

\* send_error(code): an HTML error page, sent through self.end_headers()
SendError(srv, method, path, code) ==
    LET head == SendHeader(SendHeader(SendHeader(SendResponse(code),
                    "Connection", "close"),
                    "Content-Type", "text/html;charset=utf-8"),
                    "Content-Length", "n")
    IN  [EndHeaders(srv, head, path) EXCEPT
            !.body = IF method = "HEAD" THEN "" ELSE "html error page"]

Entering(r, what) == [r EXCEPT !.entered = @ \cup {what}]

(***************************************************************************)
(* MIME types                                                              *)
(***************************************************************************)
\* What the platform MIME table may say for the two extensions it differs on.
PlatformTables ==
    [js : {"text/javascript", "application/javascript"},
     wasm : {"application/wasm", "application/octet-stream"}]

\* SimpleHTTPRequestHandler.guess_type: one string, looked up by extension
SuperGuessType(path) ==
    LET ext == SplitExt(path)
    IN  IF ext = DotWasm THEN platform.wasm
        ELSE IF ext = DotJs THEN platform.js
        ELSE IF ext = DotHtml THEN "text/html"
        ELSE IF ext = DotOgg THEN "audio/ogg"
        ELSE IF ext = DotJson THEN "application/json"
        ELSE "application/octet-stream"

\* HuntmasterHandler.guess_type.  "mimetype, encoding = ..." unpacks the
\* string the base class returns: that succeeds only for a string of two
\* characters, and raises ValueError otherwise.  On success the method
\* returns a pair, which send_header formats as the text of a tuple.
HuntmasterGuessType(path) ==
    LET guessed == SuperGuessType(path)
        override ==
            IF EndsWith(path, DotWasm) THEN "application/wasm"
            ELSE IF EndsWith(path, DotJs) THEN "application/javascript"
            ELSE IF EndsWith(path, DotTs) THEN "application/typescript"
            ELSE IF EndsWith(path, DotWav) THEN "audio/wav"
            ELSE IF EndsWith(path, DotMp3) THEN "audio/mpeg"
            ELSE IF EndsWith(path, DotOgg) THEN "audio/ogg"
            ELSE IF EndsWith(path, DotJson) THEN "application/json"
            ELSE "first character"
    IN  IF Len(guessed) # 2
        THEN [raised |-> "ValueError", ctype |-> ""]
        ELSE [raised |-> "", ctype |-> "('" \o override \o "', 'second character')"]

\* CORSRequestHandler.guess_type
CORSGuessType(path) ==
    LET mimetype == SuperGuessType(path)
    IN  IF EndsWith(path, DotWasm)
        THEN [raised |-> "", ctype |-> "application/wasm"]
        ELSE [raised |-> "", ctype |-> mimetype]

\* self.guess_type(path) of the running handler class
GuessType(srv, path) ==
    IF srv = "serve_production" THEN HuntmasterGuessType(path)
    ELSE CORSGuessType(path)

(***************************************************************************)
(* Static files: SimpleHTTPRequestHandler.send_head and the copy of the    *)
(* file that do_GET makes after it                                         *)
(***************************************************************************)
ServeFile(srv, method, target, fsPath, ims) ==
    LET guess == GuessType(srv, fsPath)
        ok == SendHeader(SendHeader(SendHeader(SendResponse(200),
                  "Content-type", guess.ctype),
                  "Content-Length", "n"),
                  "Last-Modified", "then")
    IN  IF guess.raised # "" THEN [NoResponse EXCEPT !.raised = guess.raised]
        ELSE IF fsPath \notin tree.files THEN SendError(srv, method, target, 404)
        ELSE IF ims THEN EndHeaders(srv, SendResponse(304), target)
        ELSE [EndHeaders(srv, ok, target) EXCEPT
                !.body = IF method = "HEAD" THEN "" ELSE "file"]

ListDirectory(srv, method, target) ==
    LET head == SendHeader(SendHeader(SendResponse(200),
                    "Content-type", "text/html; charset=utf-8"),
                    "Content-Length", "n")
    IN  [EndHeaders(srv, head, target) EXCEPT
            !.body = IF method = "HEAD" THEN "" ELSE "listing"]

SendHead(srv, method, target, ims) ==
    LET fsPath == TranslatePath(target)
        index == fsPath \o Slash \o IndexHtml
        moved == SendHeader(SendHeader(SendResponse(301),
                     "Location", "target/"),
                     "Content-Length", "0")
    IN  IF fsPath \in ServedDirs
        THEN IF ~EndsWith(UrlPath(target), Slash)
             THEN EndHeaders(srv, moved, target)
             ELSE IF index \in tree.files
             THEN ServeFile(srv, method, target, index, ims)
             ELSE ListDirectory(srv, method, target)
        ELSE ServeFile(srv, method, target, fsPath, ims)

(***************************************************************************)
(* The API of serve_production.py                                          *)
(***************************************************************************)
\* get_available_master_calls / get_test_audio_files: glob("*.wav"), then
\* stat() of every entry; a dangling entry makes stat() raise
ListWavs(state) ==
    IF state = "dangling" THEN [raised |-> "FileNotFoundError"] ELSE [raised |-> ""]

HandleApiRequest(srv, method, target) ==
    LET path == UrlPath(target)
        data == IF path = ApiStatus \/ path = ApiMasterCalls
                THEN ListWavs(tree.masterCalls)
                ELSE ListWavs(tree.testAudio)
        json == SendHeader(SendResponse(200), "Content-Type", "application/json")
    IN  IF path \notin {ApiStatus, ApiMasterCalls, ApiTestAudio}
        THEN SendError(srv, method, target, 404)
        ELSE IF data.raised # ""
        THEN SendError(srv, method, target, 500)
        ELSE [EndHeaders(srv, json, target) EXCEPT !.body = "json"]

(***************************************************************************)
(* Request handlers                                                        *)
(***************************************************************************)
\* HuntmasterHandler.do_GET
HuntmasterDoGET(srv, target, ims) ==
    LET path == UrlPath(target)
        found == SendHeader(SendResponse(302), "Location", "/web/")
    IN  IF StartsWith(path, ApiPrefix)
        THEN Entering(HandleApiRequest(srv, "GET", target), "api")
        ELSE IF path = Slash
        THEN EndHeaders(srv, found, target)
        ELSE Entering(SendHead(srv, "GET", target, ims), "files")

\* SimpleHTTPRequestHandler.do_GET and do_HEAD, which neither class
\* overrides for HEAD and serve_dev.py leaves alone for GET
SimpleDoGET(srv, method, target, ims) ==
    Entering(SendHead(srv, method, target, ims), "files")

\* A preflight handled by the GET path instead of answered on the spot.
DoOPTIONSThroughGET(srv, target, ims) ==
    IF srv = "serve_production"
    THEN Entering(HuntmasterDoGET(srv, target, ims), "do_OPTIONS")
    ELSE Entering(SimpleDoGET(srv, "GET", target, ims), "do_OPTIONS")

\* do_OPTIONS, the same in both handler classes
DoOPTIONS(srv, target, ims) ==
    Entering(EndHeaders(srv, SendResponse(200), target), "do_OPTIONS")

\* handle_one_request: the method named do_<command>, or 501 without one
Dispatch(srv, method, target, ims) ==
    IF method = "OPTIONS" THEN DoOPTIONS(srv, target, ims)
    ELSE IF method = "GET" /\ srv = "serve_production"
    THEN Entering(HuntmasterDoGET(srv, target, ims), "do_GET")
    ELSE IF method \in {"GET", "HEAD"}
    THEN SimpleDoGET(srv, method, target, ims)
    ELSE SendError(srv, method, target, 501)

NoRequest == [method |-> "", target |-> <<>>, ims |-> FALSE]

HandleRequest ==
    \E method \in Methods, target \in Targets, ims \in BOOLEAN :
        /\ main.pc = "serving"
        /\ request' = [method |-> method, target |-> target, ims |-> ims]
        /\ response' = Dispatch(server, method, target, ims)
        /\ UNCHANGED <<server, platform, tree>>

(***************************************************************************)
(* Changes to the served tree                                              *)
(***************************************************************************)
CreateServedFile ==
    /\ \E f \in ServedFiles \ tree.files : tree' = [tree EXCEPT !.files = @ \cup {f}]
    /\ request' = NoRequest
    /\ response' = NoResponse
    /\ UNCHANGED <<server, platform>>

DeleteServedFile ==
    /\ \E f \in tree.files : tree' = [tree EXCEPT !.files = @ \ {f}]
    /\ request' = NoRequest
    /\ response' = NoResponse
    /\ UNCHANGED <<server, platform>>

ChangeMasterCalls ==
    /\ \E w \in WavStates \ {tree.masterCalls} : tree' = [tree EXCEPT !.masterCalls = w]
    /\ request' = NoRequest
    /\ response' = NoResponse
    /\ UNCHANGED <<server, platform>>

ChangeTestAudio ==
    /\ \E w \in WavStates \ {tree.testAudio} : tree' = [tree EXCEPT !.testAudio = w]
    /\ request' = NoRequest
    /\ response' = NoResponse
    /\ UNCHANGED <<server, platform>>

ServerInit ==
    /\ server \in {"serve_production", "serve_dev"}
    /\ platform \in PlatformTables
    /\ tree = [files |-> {}, masterCalls |-> "listable", testAudio |-> "listable"]
    /\ request = NoRequest
    /\ response = NoResponse

(***************************************************************************)
(* Start-up of serve_production.py: main() and create_ssl_context          *)
(***************************************************************************)
\* --ssl, --production as given; cert and key say whether --cert and --key
\* were given
ArgSets == [ssl : BOOLEAN, cert : BOOLEAN, key : BOOLEAN, production : BOOLEAN]

NoArgs == [ssl |-> FALSE, cert |-> FALSE, key |-> FALSE, production |-> FALSE]

\* main() after parser.parse_args(): no socket yet
Parsed == [pc |-> "parsed", bound |-> FALSE, tls |-> "", exit |-> -1]

\* main() inside httpd.serve_forever() over a plain socket
Serving == [pc |-> "serving", bound |-> TRUE, tls |-> "", exit |-> -1]

\* socketserver.TCPServer((host, port), HuntmasterHandler): the socket is
\* bound and listening when the constructor returns; a port in use raises
\* OSError, which ends the process.
BindSocket ==
    /\ main.pc = "parsed"
    /\ \E ok \in BOOLEAN :
          main' = IF ok THEN [main EXCEPT !.pc = "bound", !.bound = TRUE]
                  ELSE [main EXCEPT !.pc = "exited", !.exit = 1]
    /\ UNCHANGED <<args, server, platform, tree, request, response>>

\* create_ssl_context(cert_file, key_file): which pair is loaded, or the
\* exception raised when openssl or load_cert_chain fails
CreateSslContext(cert_file, key_file, ok) ==
    IF ~ok THEN [raised |-> TRUE, pair |-> ""]
    ELSE IF ~cert_file \/ ~key_file
    THEN [raised |-> FALSE, pair |-> "self-signed"]
    ELSE [raised |-> FALSE, pair |-> "supplied"]

\* The "if args.ssl: ... else: ..." of main(), run with the socket bound.
\* An exception leaves the with block, which closes the socket, and ends
\* the process with a traceback.
WrapSocket ==
    /\ main.pc = "bound"
    /\ \E ok \in BOOLEAN :
          LET context == CreateSslContext(args.cert, args.key, ok)
          IN  main' = IF ~args.ssl THEN [main EXCEPT !.pc = "ready"]
                      ELSE IF context.raised
                      THEN [main EXCEPT !.pc = "exited", !.bound = FALSE, !.exit = 1]
                      ELSE [main EXCEPT !.pc = "ready", !.tls = context.pair]
    /\ UNCHANGED <<args, server, platform, tree, request, response>>

\* httpd.serve_forever()
ServeForever ==
    /\ main.pc = "ready"
    /\ main' = [main EXCEPT !.pc = "serving"]
    /\ UNCHANGED <<args, server, platform, tree, request, response>>

\* KeyboardInterrupt: serve_forever returns and main() ends normally
Interrupt ==
    /\ main.pc = "serving"
    /\ main' = [main EXCEPT !.pc = "exited", !.bound = FALSE, !.exit = 0]
    /\ UNCHANGED <<args, server, platform, tree, request, response>>

(***************************************************************************)
(* Specifications                                                          *)
(***************************************************************************)
\* A server started without options and serving.
StartIdle ==
    /\ args = NoArgs
    /\ main = Serving

\* No generate_index call in progress and no reader.
WriteIdle ==
    /\ writer = [pc |-> "idle"]
    /\ seen = [kind |-> "nothing"]
    /\ removed = {}

\* The builder before any run, over an empty metadata directory.
BuilderIdle ==
    /\ procDir = TRUE
    /\ metaDir = TRUE
    /\ files = <<>>
    /\ indexFile = NoFile
    /\ build = NoBuild
    /\ changes = 0

\* A server that has not been sent a request.
ServerIdle ==
    /\ server = "serve_production"
    /\ platform = [js |-> "text/javascript", wasm |-> "application/wasm"]
    /\ tree = [files |-> {}, masterCalls |-> "listable", testAudio |-> "listable"]
    /\ request = NoRequest
    /\ response = NoResponse

Init == BuilderIdle /\ ServerInit /\ StartIdle /\ WriteIdle

\* A delivery server answering requests over a changing tree.
Next ==
    \/ HandleRequest /\ UNCHANGED <<builderVars, args, main, writeVars, removed>>
    \/ CreateServedFile /\ UNCHANGED <<builderVars, args, main, writeVars, removed>>
    \/ DeleteServedFile /\ UNCHANGED <<builderVars, args, main, writeVars, removed>>
    \/ ChangeMasterCalls /\ UNCHANGED <<builderVars, args, main, writeVars, removed>>
    \/ ChangeTestAudio /\ UNCHANGED <<builderVars, args, main, writeVars, removed>>

Spec == Init /\ [][Next]_vars

\* The catalog builder run again and again over a changing directory.
BuildNext ==
    \/ Build /\ UNCHANGED <<serverVars, startVars, writeVars, removed>>
    \/ AddFile /\ UNCHANGED <<serverVars, startVars, writeVars, removed>>
    \/ RemoveFile /\ UNCHANGED <<serverVars, startVars, writeVars, removed>>
    \/ RemoveMetadataDir /\ UNCHANGED <<serverVars, startVars, writeVars, removed>>
    \/ MakeMetadataDir /\ UNCHANGED <<serverVars, startVars, writeVars, removed>>

BuildInit == BuilderInit /\ ServerIdle /\ StartIdle /\ WriteIdle

BuildSpec == BuildInit /\ [][BuildNext]_vars

\* generate_index writing index.json while another process reads it.
WriteNext ==
    \/ OpenIndex /\ UNCHANGED <<serverVars, startVars, removed>>
    \/ FlushIndex /\ UNCHANGED <<serverVars, startVars, removed>>
    \/ CloseIndex /\ UNCHANGED <<serverVars, startVars, removed>>
    \/ ReadIndex /\ UNCHANGED <<serverVars, startVars, removed>>
    \/ AddFile /\ UNCHANGED <<serverVars, startVars, writeVars, removed>>
    \/ RemoveFile /\ UNCHANGED <<serverVars, startVars, writeVars, removed>>

WriteSpec == BuildInit /\ [][WriteNext]_vars

\* A metadata directory that holds one file and was never indexed.
OneFile == UNION {[{n} -> ContentsOf(n)] : n \in Names}

LifeInit ==
    /\ procDir = TRUE
    /\ metaDir = TRUE
    /\ files \in OneFile
    /\ indexFile = NoFile
    /\ build = NoBuild
    /\ changes = 0
    /\ ServerIdle
    /\ StartIdle
    /\ WriteIdle

\* Additions, deletions and builds; removed keeps the names deleted and not
\* added again.
LifeNext ==
    \/ Build /\ UNCHANGED <<serverVars, startVars, writeVars, removed>>
    \/ /\ AddFile
       /\ removed' = removed \ DOMAIN files'
       /\ UNCHANGED <<serverVars, startVars, writeVars>>
    \/ /\ RemoveFile
       /\ removed' = removed \cup (DOMAIN files \ DOMAIN files')
       /\ UNCHANGED <<serverVars, startVars, writeVars>>

LifeSpec == LifeInit /\ [][LifeNext]_vars

\* serve_production.py started with any options, then answering requests.
StartInit ==
    /\ BuilderIdle
    /\ ServerIdle
    /\ WriteIdle
    /\ args \in ArgSets
    /\ main = Parsed

StartNext ==
    \/ BindSocket /\ UNCHANGED <<builderVars, writeVars, removed>>
    \/ WrapSocket /\ UNCHANGED <<builderVars, writeVars, removed>>
    \/ ServeForever /\ UNCHANGED <<builderVars, writeVars, removed>>
    \/ HandleRequest /\ UNCHANGED <<builderVars, args, main, writeVars, removed>>
    \/ Interrupt /\ UNCHANGED <<builderVars, writeVars, removed>>

StartSpec == StartInit /\ [][StartNext]_vars

(***************************************************************************)
(* Properties of the catalog builder (checked under BuildSpec)             *)
(***************************************************************************)
\* generate_index has just returned normally and the tree is as it left it
Built == build.status = "ok"

Calls == indexFile.calls
Buckets == indexFile.species

Range(f) == {f[i] : i \in DOMAIN f}

\* The calls entries whose id is the given one
EntriesWithId(id) == {i \in 1..Len(Calls) : Calls[i].id = id}

\* C3: after a successful generate_index every *.json file of the metadata
\* directory has exactly one calls entry whose id is the file's stem, there
\* are no other entries, and len(calls) is the number of metadata files.
C3_Completeness ==
    Built =>
        /\ Len(Calls) = Cardinality(GlobJson)
        /\ \A n \in GlobJson : Cardinality(EntriesWithId(Stem(n))) = 1
        /\ \A i \in 1..Len(Calls) : \E n \in GlobJson : Calls[i].id = Stem(n)

Fields == {"species", "callType", "season", "difficulty", "duration"}

Defaults ==
    [species |-> "unknown", callType |-> "unknown", season |-> "all",
     difficulty |-> 1, duration |-> 0]

\* C5: for every metadata record and each of the five fields, the catalog
\* entry holds the default when the record lacks the field and the record's
\* own value when it has it.
C5_DefaultSubstitution ==
    Built =>
        /\ Len(Calls) = Len(build.order)
        /\ \A i \in 1..Len(Calls) :
              LET rec == files[build.order[i]].rec
              IN  \A f \in Fields :
                      Calls[i][f] = IF f \in DOMAIN rec THEN rec[f] ELSE Defaults[f]

\* A record with no field and a record with all five (one of them 0) were
\* indexed in one build.
C5_Witness ==
    /\ Built
    /\ \E i, j \in 1..Len(build.order) :
          /\ files[build.order[i]] = EmptyRecord
          /\ files[build.order[j]] = FullRecord
          /\ Calls[j].difficulty = 0

\* A path resolved against the asset root: how many levels it climbs above
\* the root, and the components below that point.
RECURSIVE Resolve(_, _)
Resolve(components, at) ==
    IF components = <<>> THEN at
    ELSE LET c == Head(components)
             next == IF c = <<>> \/ c = <<".">> THEN at
                     ELSE IF c = <<".", ".">>
                     THEN (IF at.below = <<>>
                           THEN [at EXCEPT !.above = @ + 1]
                           ELSE [at EXCEPT !.below = SubSeq(@, 1, Len(@) - 1)])
                     ELSE [at EXCEPT !.below = Append(@, c)]
         IN  Resolve(Tail(components), next)

AtRoot == [above |-> 0, below |-> <<>>]

IsAbsolute(path) == Len(path) > 0 /\ path[1] = "/"

HasDotDot(path) == <<".", ".">> \in Range(Split(path, "/"))

InsideRoot(path) ==
    /\ ~IsAbsolute(path)
    /\ Resolve(Split(path, "/"), AtRoot).above = 0

PathSafe(path) == InsideRoot(path) /\ ~HasDotDot(path)

\* C6 as stated: every one of the four files paths of every entry lies inside
\* the asset root and has no ".." component and no absolute prefix.
C6_AllPathsInsideRoot ==
    Built =>
        \A i \in 1..Len(Calls) :
            /\ PathSafe(Calls[i].files.audio)
            /\ PathSafe(Calls[i].files.mfc)
            /\ PathSafe(Calls[i].files.waveform)
            /\ PathSafe(Calls[i].files.metadata)

\* C6 as amended: the mfc, waveform and metadata paths lie inside the asset
\* root with no ".." component and no absolute prefix, whatever the id; the
\* audio path is "../master_calls/<id>.wav", which climbs exactly one level
\* above the asset root into the sibling master_calls directory.
C6_DerivedPathsInsideRoot ==
    Built =>
        \A i \in 1..Len(Calls) :
            /\ PathSafe(Calls[i].files.mfc)
            /\ PathSafe(Calls[i].files.waveform)
            /\ PathSafe(Calls[i].files.metadata)
            /\ ~IsAbsolute(Calls[i].files.audio)
            /\ Resolve(Split(Calls[i].files.audio, "/"), AtRoot) =
                  [above |-> 1,
                   below |-> << <<"m", "a", "s", "t", "e", "r", "_", "c", "a", "l", "l", "s">>,
                                Calls[i].id \o DotWav >>]

\* An entry whose id is ".." (from the file "...json") was indexed.
C6_Witness ==
    /\ Built
    /\ \E i \in 1..Len(Calls) : Calls[i].id = <<".", ".">>

\* C7: when the metadata directory does not exist, or a metadata file in it
\* is not valid JSON, generate_index fails and index.json is left as it was.
C7_FailsAndWritesNothing ==
    (/\ build.status # "none"
     /\ \/ ~metaDir
        \/ \E n \in GlobJson : files[n].kind = "invalid")
        => /\ build.status = "error"
           /\ indexFile = build.before

\* Character codes, for comparing file names as Python compares strings
Code(c) ==
    CASE c = "." -> 46
      [] c = "a" -> 97
      [] c = "b" -> 98
      [] c = "j" -> 106
      [] c = "n" -> 110
      [] c = "o" -> 111
      [] c = "s" -> 115
      [] c = "t" -> 116
      [] c = "x" -> 120

RECURSIVE LexLess(_, _)
LexLess(s, t) ==
    IF t = <<>> THEN FALSE
    ELSE IF s = <<>> THEN TRUE
    ELSE IF Code(Head(s)) # Code(Head(t)) THEN Code(Head(s)) < Code(Head(t))
    ELSE LexLess(Tail(s), Tail(t))

\* C8: a second generate_index over an unchanged metadata directory yields
\* the same calls sequence and the same species mapping as the first, order
\* included, the files being taken in lexicographic order of their names.
C8_IdempotentRebuild ==
    build.rerun =>
        /\ indexFile.calls = build.before.calls
        /\ indexFile.species = build.before.species
        /\ \A i, j \in 1..Len(build.order) :
              i < j => LexLess(build.order[i], build.order[j])

(***************************************************************************)
(* Properties of the delivery servers (checked under Spec)                 *)
(***************************************************************************)
\* Header names are compared without regard to case; Content-type is the
\* one name the handlers spell in two ways.
Canonical(keyword) == IF keyword = "Content-type" THEN "Content-Type" ELSE keyword

\* The values a response carries for a header, one per header line
HeaderValues(r, keyword) ==
    {r.headers[i][2] : i \in {j \in 1..Len(r.headers) :
                                Canonical(r.headers[j][1]) = Canonical(keyword)}}

HeaderLines(r, keyword) ==
    Cardinality({j \in 1..Len(r.headers) :
                    Canonical(r.headers[j][1]) = Canonical(keyword)})

\* C1: every response either server emits, whatever the method and target,
\* carries Cross-Origin-Embedder-Policy: require-corp and
\* Cross-Origin-Opener-Policy: same-origin.
C1_IsolationHeaders ==
    response.emitted =>
        /\ HeaderValues(response, "Cross-Origin-Embedder-Policy") = {"require-corp"}
        /\ HeaderValues(response, "Cross-Origin-Opener-Policy") = {"same-origin"}

\* serve_production.py answered an API request with the 500 error page.
C1_Witness ==
    /\ server = "serve_production"
    /\ response.emitted
    /\ response.status = 500
    /\ "api" \in response.entered
    /\ HeaderValues(response, "Cross-Origin-Embedder-Policy") = {"require-corp"}

\* The extension-less path of the request, when it names a served file
StaticFileRequested(ext) ==
    /\ request.method = "GET"
    /\ ~request.ims
    /\ EndsWith(UrlPath(request.target), ext)
    /\ TranslatePath(request.target) \in tree.files

\* C2: a GET of a static .wasm file is answered with Content-Type
\* application/wasm and a GET of a .js file with application/javascript,
\* whatever the platform table says, and with no other Content-Type value.
C2_MimeContract ==
    /\ StaticFileRequested(DotWasm) =>
          /\ response.emitted
          /\ HeaderValues(response, "Content-Type") = {"application/wasm"}
    /\ StaticFileRequested(DotJs) =>
          /\ response.emitted
          /\ HeaderValues(response, "Content-Type") = {"application/javascript"}

\* C9: an OPTIONS request to any target is answered 200 with an empty body
\* and the CORS headers, without entering the file-serving or API logic.
C9_OptionsPreflight ==
    request.method = "OPTIONS" =>
        /\ response.emitted
        /\ response.raised = ""
        /\ response.status = 200
        /\ response.body = ""
        /\ HeaderValues(response, "Access-Control-Allow-Origin") = {"*"}
        /\ HeaderLines(response, "Access-Control-Allow-Methods") = 1
        /\ HeaderLines(response, "Access-Control-Allow-Headers") = 1
        /\ response.entered = {"do_OPTIONS"}

\* An OPTIONS request for an API target and one for a file that is missing
\* were answered (the second is the state; any server).
C9_Witness ==
    /\ request.method = "OPTIONS"
    /\ \/ StartsWith(request.target, ApiPrefix)
       \/ TranslatePath(request.target) \in ServedFiles \ tree.files
    /\ response.status = 200
    /\ response.entered = {"do_OPTIONS"}

\* C10: serve_production.py answers every GET under /api/ with JSON and
\* Content-Type application/json: 200 for the three routes, 404 for an
\* unknown route, 500 when the handler raises.
C10_ApiAlwaysJson ==
    (/\ server = "serve_production"
     /\ request.method = "GET"
     /\ StartsWith(UrlPath(request.target), ApiPrefix))
        => /\ response.emitted
           /\ response.status \in {200, 404, 500}
           /\ HeaderValues(response, "Content-Type") = {"application/json"}
           /\ response.body = "json"
           /\ (UrlPath(request.target) \in {ApiStatus, ApiMasterCalls, ApiTestAudio}
                  /\ response.status # 500) => response.status = 200
           /\ UrlPath(request.target) \notin {ApiStatus, ApiMasterCalls, ApiTestAudio}
                  => response.status = 404

\* The request names a file path under the served root (not a directory,
\* not the root redirect, not an API route)
StaticPathRequested ==
    /\ request.method = "GET"
    /\ TranslatePath(request.target) \in ServedFiles
    /\ ~StartsWith(UrlPath(request.target), ApiPrefix)

\* C14: every GET is answered with one response and no exception leaves
\* the handler; a GET of a static path is answered 200 when the file
\* exists and 404 when it does not.
C14_EveryGetAnswered ==
    request.method = "GET" =>
        /\ response.emitted
        /\ response.raised = ""
        /\ (StaticPathRequested /\ ~request.ims) =>
              response.status = IF TranslatePath(request.target) \in tree.files
                                THEN 200 ELSE 404

\* C11: started with --production, serve_production.py sends no
\* Access-Control-Allow-Origin: * and sends X-Content-Type-Options: nosniff
\* and X-Frame-Options on every response, and Strict-Transport-Security
\* when the socket is wrapped in TLS.
C11_ProductionHeaders ==
    (args.production /\ response.emitted) =>
        /\ "*" \notin HeaderValues(response, "Access-Control-Allow-Origin")
        /\ HeaderValues(response, "X-Content-Type-Options") = {"nosniff"}
        /\ HeaderLines(response, "X-Frame-Options") = 1
        /\ main.tls # "" => HeaderLines(response, "Strict-Transport-Security") = 1

\* --ssl with exactly one of --cert and --key
IncompleteTlsFlags == args.ssl /\ (args.cert # args.key)

\* C12: started with --ssl and only one of --cert and --key, the process
\* never holds a bound socket and never serves: it can only be before the
\* bind or exited with a non-zero code.
C12_IncompleteTlsNeverBinds ==
    IncompleteTlsFlags =>
        /\ ~main.bound
        /\ main.pc \in {"parsed", "exited"}
        /\ main.pc = "exited" => main.exit > 0
        /\ ~response.emitted

\* C13: whenever another process reads index.json, it finds no file or a
\* whole catalog, never an empty or cut-off document, also while
\* generate_index is writing.
C13_ReaderSeesWholeCatalog == seen.kind \in {"nothing", "absent", "catalog"}

\* The ids in the calls list and in the species buckets of the catalog
CatalogIds ==
    {Calls[i].id : i \in 1..Len(Calls)}
        \cup UNION {Range(Buckets[b].ids) : b \in 1..Len(Buckets)}

\* C15: after a successful build, every id in calls and in the buckets is
\* the stem of a metadata file present at the build, the id of a metadata
\* file that was deleted (and not added again) is in neither, and no bucket
\* is empty.
C15_NoStaleEntries ==
    Built =>
        /\ \A id \in CatalogIds : \E n \in GlobJson : Stem(n) = id
        /\ \A n \in removed : EndsWith(n, DotJson) => Stem(n) \notin CatalogIds
        /\ \A b \in 1..Len(Buckets) : Len(Buckets[b].ids) > 0
====
